---- MODULE Spec2Model ----
(***************************************************************************)
(* Model of the ICFP 2020 submission system (submission-system/src/main.rs)*)
(*                                                                         *)
(* The HTTP server runs a fixed set of worker threads (actix arbiters).    *)
(* A worker handles a request or runs one dispatched test_wrapper task at  *)
(* a time; test_wrapper is synchronous, so it occupies its worker until it *)
(* returns.  Workers run in parallel and share the ledger                  *)
(* RwLock<Vec<TestLogEntry>>.                                              *)
(*                                                                         *)
(* Text is a sequence of atoms (short strings); str::replace and           *)
(* str::starts_with are computed on those sequences.  Captured process     *)
(* output is a byte stream that is or is not valid UTF-8.                  *)
(***************************************************************************)
EXTENDS Integers, Sequences, FiniteSets, TLC

VARIABLES
    conf,       \* ConfigFile.repos, fixed after start-up
    ledger,     \* the Vec<TestLogEntry> behind the RwLock
    lock,       \* the RwLock: its writer (or NoWorker) and its reader count
    queue,      \* per worker: tasks handed to spawn_fn, not yet started
    th,         \* per worker: position and locals of what it executes
    response,   \* the last request handled by submission_handler and its answer
    accepted,   \* number of requests answered "Running Test!"
    hist        \* per ledger index: the task that appended it, the tasks that completed it

vars == <<conf, ledger, lock, queue, th, response, accepted, hist>>

\* Number of submissions the model accepts.
MaxSubs == 2

Workers == {"w1", "w2"}
NoWorker == "none"

-----------------------------------------------------------------------------
(* Text *)

\* str::starts_with
StartsWith(s, p) ==
    /\ Len(s) >= Len(p)
    /\ SubSeq(s, 1, Len(p)) = p

\* str::replace: every non-overlapping match of from, left to right.
RECURSIVE Replace(_, _, _)
Replace(s, from, to) ==
    IF Len(s) < Len(from) THEN s
    ELSE IF SubSeq(s, 1, Len(from)) = from
         THEN to \o Replace(SubSeq(s, Len(from) + 1, Len(s)), from, to)
         ELSE <<Head(s)>> \o Replace(Tail(s), from, to)

RefPrefix == <<"refs/", "heads/">>
UsernamePlaceholder == <<"{username}">>
PasswordPlaceholder == <<"{password}">>

-----------------------------------------------------------------------------
(* Configuration and requests *)

RepoA == [match_url    |-> "http://host/a.git",
          clone_url    |-> <<"https://", "{username}", ":", "{password}", "@host/a.git">>,
          deploy_token |-> <<"tokA">>,
          deploy_user  |-> <<"botA">>]

RepoB == [match_url    |-> "http://host/b.git",
          clone_url    |-> <<"https://", "{username}", ":", "{password}", "@host/b.git">>,
          deploy_token |-> <<"tokB">>,
          deploy_user  |-> <<"botB">>]

\* The configurations the server is started with.
Configs == { <<>>, <<RepoA>> }

\* The git_http_url values of incoming requests.
Urls == {"http://host/a.git", "http://host/c.git"}

\* The ref values of incoming requests.
Refs == { <<"refs/", "heads/", "master">>,
          <<"refs/", "heads/", "feature-x">> }

-----------------------------------------------------------------------------
(* Result types *)

InProgress == [tag |-> "InProgress"]

\* struct Output
MkOutput(out, err) == [stdout |-> out, stderr |-> err]

\* A captured byte stream: its text, and whether it is valid UTF-8.
Bytes(text, valid) == [text |-> text, utf8 |-> valid]

\* Which of stdout and stderr of a command are valid UTF-8: both, or all but
\* stdout.
Validity == { <<TRUE, TRUE>>, <<FALSE, TRUE>> }

\* std::process::Output of the command of a stage, its streams valid as in V.
ProcessOutputs(stage, V) ==
    { [success |-> s,
       stdout  |-> Bytes(<<stage, "stdout">>, v[1]),
       stderr  |-> Bytes(<<stage, "stderr">>, v[2])] :
         s \in BOOLEAN, v \in V }

\* No std::process::Output held.
NoOutput == [success |-> FALSE, none |-> TRUE]

Ok(v) == [ok |-> TRUE, val |-> v]
Err(e) == [ok |-> FALSE, val |-> e]
NoRet == [none |-> TRUE]

GitError == [kind |-> "GitError"]
IOError == [kind |-> "IOError"]
Utf8Error == [kind |-> "Utf8Error"]
ContainerBuildFailed(o) == [kind |-> "ContainerBuildFailed", output |-> o]

\* Output { stdout: String::from_utf8(o.stdout)?, stderr: String::from_utf8(o.stderr)? }
DecodeOutput(o) ==
    IF ~o.stdout.utf8 THEN Err(Utf8Error)
    ELSE IF ~o.stderr.utf8 THEN Err(Utf8Error)
    ELSE Ok(MkOutput(o.stdout.text, o.stderr.text))

-----------------------------------------------------------------------------
(* submission_handler *)

\* form.reference.replace("refs/heads/", "")
DeriveBranch(ref) == Replace(ref, RefPrefix, <<>>)

\* The negation of the condition of the branch check.
BranchAccepted(branch) ==
    \/ branch = <<"submission">>
    \/ branch = <<"master">>
    \/ StartsWith(branch, <<"submissions/">>)

\* rep.clone_url.replace("{username}", user).replace("{password}", token)
ResolveCloneUrl(rep) ==
    Replace(Replace(rep.clone_url, UsernamePlaceholder, rep.deploy_user),
            PasswordPlaceholder, rep.deploy_token)

SkipBody == <<"Skipping none master|submission branch">>
RunningBody == <<"Running Test!">>
UnknownBody(url) == <<"Unknown Repository ", url>>

HandlerLoopLastMatch(repos, i, ref, url) ==
    LET branch == DeriveBranch(ref)
        hits == {j \in i..Len(repos) : repos[j].match_url = url}
    IN  IF i > Len(repos)
        THEN [body |-> UnknownBody(url), spawn |-> <<>>]
        ELSE IF ~BranchAccepted(branch)
        THEN [body |-> SkipBody, spawn |-> <<>>]
        ELSE IF hits = {}
        THEN [body |-> UnknownBody(url), spawn |-> <<>>]
        ELSE LET rep == repos[CHOOSE j \in hits : \A k \in hits : k <= j]
             IN  [body  |-> RunningBody,
                  spawn |-> << [match_url |-> rep.match_url,
                                clone_url |-> ResolveCloneUrl(rep),
                                branch    |-> branch] >>]

\* The loop over conf.repos from position i on: the answer, and the
\* arguments of the test_wrapper call it spawns (at most one).
RECURSIVE HandlerLoop(_, _, _, _)
HandlerLoop(repos, i, ref, url) ==
    IF i > Len(repos)
    THEN [body |-> UnknownBody(url), spawn |-> <<>>]
    ELSE LET rep == repos[i]
             branch == DeriveBranch(ref)
         IN  IF ~BranchAccepted(branch)
             THEN [body |-> SkipBody, spawn |-> <<>>]
             ELSE IF url = rep.match_url
                  THEN [body  |-> RunningBody,
                        spawn |-> << [match_url |-> rep.match_url,
                                      clone_url |-> ResolveCloneUrl(rep),
                                      branch    |-> branch] >>]
                  ELSE HandlerLoop(repos, i + 1, ref, url)

SubmissionHandlerGateLate(repos, ref, url) ==
    LET branch == DeriveBranch(ref)
        hits == {i \in 1..Len(repos) : repos[i].match_url = url}
    IN  IF hits = {}
        THEN [body |-> UnknownBody(url), spawn |-> <<>>]
        ELSE LET rep == repos[CHOOSE i \in hits : \A j \in hits : i <= j]
             IN  [body  |-> IF BranchAccepted(branch) THEN RunningBody ELSE SkipBody,
                  spawn |-> << [match_url |-> rep.match_url,
                                clone_url |-> ResolveCloneUrl(rep),
                                branch    |-> branch] >>]

SubmissionHandler(repos, ref, url) == HandlerLoop(repos, 1, ref, url)

-----------------------------------------------------------------------------
(* test: classification; test_wrapper: the recorded result *)

ClassifyBug(result, test_result) ==
    LET run == DecodeOutput(result)
        test == DecodeOutput(test_result)
    IN  IF result.success /\ test_result.success
        THEN IF test.ok THEN Ok([tag |-> "Success", test |-> test.val]) ELSE test
        ELSE IF ~result.success
        THEN IF run.ok THEN Ok([tag |-> "RunError", run |-> run.val]) ELSE run
        ELSE IF test.ok THEN Ok([tag |-> "TestError", test |-> test.val]) ELSE test

\* match (result.status.success(), test_result.status.success())
Classify(result, test_result) ==
    LET run == DecodeOutput(result)
        test == DecodeOutput(test_result)
    IN  IF result.success /\ test_result.success
        THEN IF test.ok THEN Ok([tag |-> "Success", test |-> test.val]) ELSE test
        ELSE IF ~result.success /\ ~test_result.success
        THEN IF ~run.ok THEN run
             ELSE IF ~test.ok THEN test
             ELSE Ok([tag |-> "RunTestError", run |-> run.val, test |-> test.val])
        ELSE IF ~result.success
        THEN IF run.ok THEN Ok([tag |-> "RunError", run |-> run.val]) ELSE run
        ELSE IF test.ok THEN Ok([tag |-> "TestError", test |-> test.val]) ELSE test

None == <<>>
Some(x) == <<x>>

LogSuccess(o) == [tag |-> "Success", output |-> o]
LogSetupError(e) == [tag |-> "SetupError", error |-> e]
LogTestError(run, test) ==
    [tag |-> "TestError", run_error_log |-> run, test_error_log |-> test]

ToLogResultBug(ret) ==
    IF ~ret.ok THEN LogSetupError(ret.val)
    ELSE LET r == ret.val
         IN  CASE r.tag = "Success" -> LogSuccess(r.test)
               [] r.tag = "TestError" -> LogTestError(Some(r.test), None)
               [] r.tag = "RunError" -> LogTestError(Some(r.run), None)
               [] r.tag = "RunTestError" -> LogTestError(Some(r.run), Some(r.test))

\* The value test_wrapper assigns to e.result for the value test returned.
ToLogResult(ret) ==
    IF ~ret.ok THEN LogSetupError(ret.val)
    ELSE LET r == ret.val
         IN  CASE r.tag = "Success" -> LogSuccess(r.test)
               [] r.tag = "TestError" -> LogTestError(None, Some(r.test))
               [] r.tag = "RunError" -> LogTestError(Some(r.run), None)
               [] r.tag = "RunTestError" -> LogTestError(Some(r.run), Some(r.test))

AppendIndexStale(led) == IF Len(led) = 0 THEN 0 ELSE Len(led) - 1

AppendIndexAfterPush(led) == Len(led) + 1

\* let len = guard.len(): the index test_wrapper keeps (counted from 0).
AppendIndex(led) == Len(led)

CompleteAtEveryOpen(led, index, res) ==
    [i \in 1..Len(led) |->
        IF led[i].result = InProgress THEN [led[i] EXCEPT !.result = res] ELSE led[i]]

\* results.write().unwrap().get_mut(index).map(|e| e.result = res)
CompleteAt(led, index, res) ==
    IF index < Len(led)
    THEN [led EXCEPT ![index + 1].result = res]
    ELSE led

-----------------------------------------------------------------------------
(* State *)

NoTask == [id |-> 0]

\* A worker that executes nothing.
Idle == [pc          |-> "idle",
         task        |-> NoTask,
         index       |-> 0,
         ws          |-> "none",
         image       |-> FALSE,
         out         |-> NoOutput,
         result      |-> NoOutput,
         test_result |-> NoOutput,
         ret         |-> NoRet,
         invoked     |-> {}]

NoResponse == [none |-> TRUE]

LockFree == [writer |-> NoWorker, readers |-> 0]

\* The state after main has built the shared data, for a configuration.
Start(repos) ==
    /\ conf = repos
    /\ ledger = <<>>
    /\ lock = LockFree
    /\ queue = [w \in Workers |-> <<>>]
    /\ th = [w \in Workers |-> Idle]
    /\ response = NoResponse
    /\ accepted = 0
    /\ hist = <<>>

Init == \E repos \in Configs : Start(repos)

\* The locals of worker w after one step of test that goes on to stage next.
Goto(l, stage, next) ==
    [l EXCEPT !.pc = next, !.invoked = @ \cup {stage}]

ReturnLeaksWorkspace(l, stage, r) ==
    [l EXCEPT !.pc = "ret",
              !.ret = r,
              !.invoked = @ \cup {stage},
              !.out = NoOutput,
              !.result = NoOutput,
              !.test_result = NoOutput]

\* test returns r from stage: its locals are dropped, and with them tmp_dir,
\* whose Drop removes the workspace directory when it still exists.
Return(l, stage, r) ==
    [l EXCEPT !.pc = "ret",
              !.ret = r,
              !.invoked = @ \cup {stage},
              !.ws = IF @ = "present" THEN "removed" ELSE @,
              !.out = NoOutput,
              !.result = NoOutput,
              !.test_result = NoOutput]

-----------------------------------------------------------------------------
(* Request handlers *)

\* POST /submission on worker w.
Submission(w, ref, url) ==
    /\ th[w].pc = "idle"
    /\ accepted < MaxSubs
    /\ LET r == SubmissionHandler(conf, ref, url)
       IN  /\ response' = [ref |-> ref, url |-> url, body |-> r.body]
           /\ IF r.spawn # <<>>
              THEN /\ accepted' = accepted + 1
                   /\ queue' = [queue EXCEPT ![w] =
                          Append(@, [id        |-> accepted + 1,
                                     match_url |-> r.spawn[1].match_url,
                                     clone_url |-> r.spawn[1].clone_url,
                                     branch    |-> r.spawn[1].branch])]
              ELSE UNCHANGED <<accepted, queue>>
    /\ UNCHANGED <<conf, ledger, lock, th, hist>>

\* GET /board/ on worker w: results.read() is called.
SubmissionLookup(w) ==
    /\ th[w].pc = "idle"
    /\ th' = [th EXCEPT ![w].pc = "lock_read"]
    /\ UNCHANGED <<conf, ledger, lock, queue, response, accepted, hist>>

\* results.read() returns the read guard.
ReadLock(w) ==
    /\ th[w].pc = "lock_read"
    /\ lock.writer = NoWorker
    /\ lock' = [lock EXCEPT !.readers = @ + 1]
    /\ th' = [th EXCEPT ![w].pc = "render"]
    /\ UNCHANGED <<conf, ledger, queue, response, accepted, hist>>

\* The page is rendered from the guard and the guard is dropped.
Render(w) ==
    /\ th[w].pc = "render"
    /\ lock' = [lock EXCEPT !.readers = @ - 1]
    /\ th' = [th EXCEPT ![w] = Idle]
    /\ UNCHANGED <<conf, ledger, queue, response, accepted, hist>>

-----------------------------------------------------------------------------
(* test_wrapper *)

\* The arbiter of worker w starts its oldest spawned task: results.write() is called.
StartTask(w) ==
    /\ th[w].pc = "idle"
    /\ queue[w] # <<>>
    /\ th' = [th EXCEPT ![w] = [Idle EXCEPT !.pc = "lock_append", !.task = Head(queue[w])]]
    /\ queue' = [queue EXCEPT ![w] = Tail(@)]
    /\ UNCHANGED <<conf, ledger, lock, response, accepted, hist>>

\* results.write() returns the write guard.
AppendLock(w) ==
    /\ th[w].pc = "lock_append"
    /\ lock = LockFree
    /\ lock' = [lock EXCEPT !.writer = w]
    /\ th' = [th EXCEPT ![w].pc = "append"]
    /\ UNCHANGED <<conf, ledger, queue, response, accepted, hist>>

GuardKept(l) == l

\* The lock once the block of the append ends: its write guard is dropped.
GuardDropped(l) == [l EXCEPT !.writer = NoWorker]

\* The InProgress entry is pushed, its index kept, and the guard dropped.
AppendEntry(w) ==
    /\ th[w].pc = "append"
    /\ ledger' = Append(ledger, [repository |-> th[w].task.match_url,
                                 branch     |-> th[w].task.branch,
                                 result     |-> InProgress])
    /\ hist' = Append(hist, [task |-> th[w].task.id, completed |-> <<>>])
    /\ th' = [th EXCEPT ![w].pc = "tempdir", ![w].index = AppendIndex(ledger)]
    /\ lock' = GuardDropped(lock)
    /\ UNCHANGED <<conf, queue, response, accepted>>

\* test returned: results.write() returns the write guard.
CompleteLock(w) ==
    /\ th[w].pc = "ret"
    /\ lock = LockFree
    /\ lock' = [lock EXCEPT !.writer = w]
    /\ th' = [th EXCEPT ![w].pc = "complete"]
    /\ UNCHANGED <<conf, ledger, queue, response, accepted, hist>>

\* The entry at index gets its result, the guard is dropped, test_wrapper returns.
Complete(w) ==
    /\ th[w].pc = "complete"
    /\ ledger' = CompleteAt(ledger, th[w].index, ToLogResult(th[w].ret))
    /\ hist' = IF th[w].index < Len(hist)
               THEN [hist EXCEPT ![th[w].index + 1].completed = Append(@, th[w].task.id)]
               ELSE hist
    /\ lock' = LockFree
    /\ th' = [th EXCEPT ![w] = Idle]
    /\ UNCHANGED <<conf, queue, response, accepted>>

-----------------------------------------------------------------------------
(* test: one action per stage; each draws the outcome of its external call *)

\* Builder::new().suffix("submission").tempdir()?
TempDir(w) ==
    /\ th[w].pc = "tempdir"
    /\ \E created \in BOOLEAN :
          th' = [th EXCEPT ![w] =
                    IF created
                    THEN [Goto(@, "tempdir", "clone") EXCEPT !.ws = "present"]
                    ELSE Return(@, "tempdir", Err(IOError))]
    /\ UNCHANGED <<conf, ledger, lock, queue, response, accepted, hist>>

\* repo_builder.branch(branch).clone(clone_url, tmp_dir.path())?
Clone(w) ==
    /\ th[w].pc = "clone"
    /\ \E cloned \in BOOLEAN :
          th' = [th EXCEPT ![w] =
                    IF cloned
                    THEN Goto(@, "clone", "platform")
                    ELSE Return(@, "clone", Err(GitError))]
    /\ UNCHANGED <<conf, ledger, lock, queue, response, accepted, hist>>

\* std::fs::read_to_string(platform_path)?
ReadPlatform(w) ==
    /\ th[w].pc = "platform"
    /\ \E read \in BOOLEAN :
          th' = [th EXCEPT ![w] =
                    IF read
                    THEN Goto(@, "platform", "overlay")
                    ELSE Return(@, "platform", Err(IOError))]
    /\ UNCHANGED <<conf, ledger, lock, queue, response, accepted, hist>>

\* std::fs::copy(clean_dockerfile, repo_dockerfile)?
CopyDockerfile(w) ==
    /\ th[w].pc = "overlay"
    /\ \E copied \in BOOLEAN :
          th' = [th EXCEPT ![w] =
                    IF copied
                    THEN Goto(@, "overlay", "build")
                    ELSE Return(@, "overlay", Err(IOError))]
    /\ UNCHANGED <<conf, ledger, lock, queue, response, accepted, hist>>

\* docker build --rm --quiet --network=none tmp_dir
DockerBuild(w, V) ==
    /\ th[w].pc = "build"
    /\ \E started \in BOOLEAN, out \in ProcessOutputs("build", V) :
          th' = [th EXCEPT ![w] =
                    IF ~started
                    THEN Return(@, "build", Err(IOError))
                    ELSE [Goto(@, "build", "build_status") EXCEPT !.out = out,
                                                                  !.image = out.success]]
    /\ UNCHANGED <<conf, ledger, lock, queue, response, accepted, hist>>

BuildFailedIgnored(out) == FALSE

\* if !out.status.success()
BuildFailed(out) == ~out.success

\* The check of the exit status of the build, and its early return.
CheckBuild(w) ==
    /\ th[w].pc = "build_status"
    /\ th' = [th EXCEPT ![w] =
                 IF BuildFailed(th[w].out)
                 THEN LET d == DecodeOutput(th[w].out)
                      IN  Return(@, "build",
                                 IF d.ok THEN Err(ContainerBuildFailed(d.val)) ELSE d)
                 ELSE Goto(@, "build", "close")]
    /\ UNCHANGED <<conf, ledger, lock, queue, response, accepted, hist>>

\* tmp_dir.close()? and the decoding of the image id from out.stdout.
CloseWorkspace(w) ==
    /\ th[w].pc = "close"
    /\ \E closed \in BOOLEAN :
          th' = [th EXCEPT ![w] =
                    IF ~closed
                    THEN [Return(@, "close", Err(IOError)) EXCEPT !.ws = "removed"]
                    ELSE IF ~th[w].out.stdout.utf8
                    THEN [Return(@, "close", Err(Utf8Error)) EXCEPT !.ws = "removed"]
                    ELSE [Goto(@, "close", "run") EXCEPT !.ws = "removed",
                                                         !.out = NoOutput]]
    /\ UNCHANGED <<conf, ledger, lock, queue, response, accepted, hist>>

AfterRunSkipsTest(result) == IF result.success THEN "test" ELSE "rmi"

\* The stage that follows a run that returned an exit status: the test, for
\* every status.
AfterRun(result) == "test"

\* docker run --rm id localhost player
DockerRun(w, V) ==
    /\ th[w].pc = "run"
    /\ \E started \in BOOLEAN, result \in ProcessOutputs("run", V) :
          th' = [th EXCEPT ![w] =
                    IF ~started
                    THEN Return(@, "run", Err(IOError))
                    ELSE [Goto(@, "run", AfterRun(result)) EXCEPT !.result = result]]
    /\ UNCHANGED <<conf, ledger, lock, queue, response, accepted, hist>>

\* docker run --rm --entrypoint ./test.sh id
DockerTest(w, V) ==
    /\ th[w].pc = "test"
    /\ \E started \in BOOLEAN, test_result \in ProcessOutputs("test", V) :
          th' = [th EXCEPT ![w] =
                    IF ~started
                    THEN Return(@, "test", Err(IOError))
                    ELSE [Goto(@, "test", "rmi") EXCEPT !.test_result = test_result]]
    /\ UNCHANGED <<conf, ledger, lock, queue, response, accepted, hist>>

\* docker rmi id, and the printing of its outcome.
DockerRmi(w, V) ==
    /\ th[w].pc = "rmi"
    /\ \E started \in BOOLEAN, del_res \in ProcessOutputs("rmi", V) :
          th' = [th EXCEPT ![w] =
                    IF ~started
                    THEN Return(@, "rmi", Err(IOError))
                    ELSE IF del_res.success
                    THEN Goto(@, "rmi", "classify")
                    ELSE LET d == DecodeOutput(del_res)
                         IN  IF d.ok
                             THEN Goto(@, "rmi", "classify")
                             ELSE Return(@, "rmi", d)]
    /\ UNCHANGED <<conf, ledger, lock, queue, response, accepted, hist>>

\* The final match of test.
ClassifyOutcome(w) ==
    /\ th[w].pc = "classify"
    /\ th' = [th EXCEPT ![w] =
                 Return(@, "classify", Classify(th[w].result, th[w].test_result))]
    /\ UNCHANGED <<conf, ledger, lock, queue, response, accepted, hist>>

-----------------------------------------------------------------------------
(* Specification *)

Pipeline(w, V) ==
    \/ TempDir(w)
    \/ Clone(w)
    \/ ReadPlatform(w)
    \/ CopyDockerfile(w)
    \/ DockerBuild(w, V)
    \/ CheckBuild(w)
    \/ CloseWorkspace(w)
    \/ DockerRun(w, V)
    \/ DockerTest(w, V)
    \/ DockerRmi(w, V)
    \/ ClassifyOutcome(w)

\* The steps of the task that worker w runs.
Task(w, V) ==
    \/ StartTask(w)
    \/ AppendLock(w)
    \/ AppendEntry(w)
    \/ Pipeline(w, V)
    \/ CompleteLock(w)
    \/ Complete(w)

\* The steps of a board request that worker w handles.
Board(w) ==
    \/ SubmissionLookup(w)
    \/ ReadLock(w)
    \/ Render(w)

Next ==
    \E w \in Workers :
        \/ \E ref \in Refs, url \in Urls : Submission(w, ref, url)
        \/ Board(w)
        \/ Task(w, Validity)

Spec == Init /\ [][Next]_vars

\* The arbiter of a worker runs every task it was handed, a command that was
\* started returns, and a thread that waits for the ledger lock gets it:
\* lock holders release it after one structural operation.
Fairness ==
    \A w \in Workers :
        /\ SF_vars(Task(w, Validity))
        /\ SF_vars(ReadLock(w) \/ Render(w))

FairSpec == Spec /\ Fairness

\* One worker alone, with two configured repositories and with command
\* output of which either stream may be undecodable: the executions of
\* submission_handler, test_wrapper and test taken one at a time.
PipeWorkers == {"w1"}
PipeConfigs == { <<RepoA>>, <<RepoA, RepoB>> }
PipeUrls == {"http://host/a.git", "http://host/b.git", "http://host/c.git"}
PipeValidity == { <<TRUE, TRUE>>, <<FALSE, TRUE>>, <<TRUE, FALSE>> }

PipeInit == \E repos \in PipeConfigs : Start(repos)

PipeNext ==
    \E w \in PipeWorkers :
        \/ \E ref \in Refs, url \in PipeUrls : Submission(w, ref, url)
        \/ Board(w)
        \/ Task(w, PipeValidity)

PipeSpec == PipeInit /\ [][PipeNext]_vars

\* submission_handler alone, over configurations in which the order of the
\* repositories matters and over refs in which the prefix is missing, misplaced
\* or repeated.

\* A second entry for the match URL of RepoA, with its own template and credentials.
RepoA2 == [match_url    |-> "http://host/a.git",
           clone_url    |-> <<"ssh://", "{username}", "@mirror/a.git">>,
           deploy_token |-> <<"tokA2">>,
           deploy_user  |-> <<"botA2">>]

\* A repository whose deploy_user is itself the text of a placeholder.
RepoC == [match_url    |-> "http://host/b.git",
          clone_url    |-> <<"https://", "{username}", ":", "{password}", "@host/b.git">>,
          deploy_token |-> <<"tokC">>,
          deploy_user  |-> <<"{password}">>]

RouterConfigs == { <<>>, <<RepoA>>, <<RepoA, RepoB>>, <<RepoB, RepoA>>,
                   <<RepoA, RepoA2>>, <<RepoA2, RepoA>>, <<RepoA, RepoC>> }

RouterRefs == { <<"refs/", "heads/", "master">>,
                <<"refs/", "heads/", "submission">>,
                <<"refs/", "heads/", "submissions/", "x">>,
                <<"refs/", "heads/", "feature-x">>,
                <<"master">>,
                <<"refs/", "tags/", "master">>,
                <<"refs/", "heads/", "refs/", "heads/", "master">>,
                <<"submissions/", "refs/", "heads/", "x">> }

RouterInit == \E repos \in RouterConfigs : Start(repos)

RouterNext ==
    \E w \in Workers, ref \in RouterRefs, url \in PipeUrls : Submission(w, ref, url)

RouterSpec == RouterInit /\ [][RouterNext]_vars

-----------------------------------------------------------------------------
(* Properties *)

TerminalTags == {"Success", "SetupError", "TestError"}

IsTerminal(r) == r.tag \in TerminalTags

\* The positions at which worker w runs test, or has run it and not yet recorded it.
InTest(w) ==
    th[w].pc \notin {"idle", "lock_read", "render", "lock_append", "append"}

\* C1: the result of a ledger entry changes at most once: a new entry is
\* InProgress, a step changes an InProgress result only to Success, SetupError
\* or TestError, and no step of any worker changes a terminal result or
\* removes the entry.
ResultChangesAtMostOnce ==
    [][ /\ Len(ledger') >= Len(ledger)
        /\ \A i \in 1..Len(ledger') :
              IF i > Len(ledger)
              THEN ledger'[i].result = InProgress
              ELSE IF IsTerminal(ledger[i].result)
              THEN ledger'[i].result = ledger[i].result
              ELSE \/ ledger'[i].result = InProgress
                   \/ IsTerminal(ledger'[i].result) ]_vars

\* Two entries are terminal: the second was completed after the first.
WitnessTwoTerminal ==
    /\ Len(ledger) = 2
    /\ IsTerminal(ledger[1].result)
    /\ IsTerminal(ledger[2].result)
    /\ ledger[1].result # ledger[2].result

\* C2: every accepted submission eventually has a ledger entry with a
\* terminal result, under fair scheduling.
AcceptedEventuallyTerminal ==
    \A t \in 1..MaxSubs :
        (accepted >= t) ~>
            (\E i \in 1..Len(ledger) :
                /\ hist[i].task = t
                /\ IsTerminal(ledger[i].result))

\* All accepted submissions are recorded with a terminal result.
WitnessAllTerminal ==
    /\ accepted = MaxSubs
    /\ Len(ledger) = MaxSubs
    /\ \A i \in 1..Len(ledger) : IsTerminal(ledger[i].result)

\* C3: every pipeline that appended keeps the index of its own entry, the
\* entries are in append order at 0..N-1 with no pipeline appended twice, two
\* running pipelines hold different indices, an entry is completed by the
\* pipeline that appended it and only once, and when nothing is pending the
\* ledger has one entry per accepted submission.
DistinctIndices ==
    /\ Len(hist) = Len(ledger)
    /\ \A i, j \in 1..Len(hist) : hist[i].task = hist[j].task => i = j
    /\ \A w \in Workers :
          InTest(w) =>
              /\ th[w].index < Len(ledger)
              /\ hist[th[w].index + 1].task = th[w].task.id
    /\ \A w, v \in Workers :
          (w # v /\ InTest(w) /\ InTest(v)) => th[w].index # th[v].index
    /\ \A i \in 1..Len(hist) :
          /\ Len(hist[i].completed) <= 1
          /\ \A k \in 1..Len(hist[i].completed) : hist[i].completed[k] = hist[i].task
          /\ IsTerminal(ledger[i].result) => hist[i].completed = <<hist[i].task>>
    /\ ( /\ \A w \in Workers : queue[w] = <<>> /\ ~InTest(w)
                                 /\ th[w].pc \notin {"lock_append", "append"} )
          => Len(ledger) = accepted

\* Two pipelines on different workers have both returned and are about to
\* record their results.
WitnessConcurrentPipelines ==
    /\ th["w1"].pc = "ret"
    /\ th["w2"].pc = "ret"

\* Both streams of a captured output are valid UTF-8.
Decodable(o) == o.stdout.utf8 /\ o.stderr.utf8

\* The text of a captured output.
TextOf(o) == MkOutput(o.stdout.text, o.stderr.text)

\* Worker w returns from test in this step.
Returns(w) == th[w].pc # "ret" /\ th'[w].pc = "ret"

\* C4: when test reaches its final match and the run and test outputs are
\* decodable, it returns Ok of: Success(test) for (true, true),
\* RunTestError(run, test) for (false, false), RunError(run) for (false, true),
\* TestError(test) for (true, false).
ClassificationTable ==
    [][ \A w \in Workers :
          ( /\ th[w].pc = "classify"
            /\ Returns(w)
            /\ Decodable(th[w].result)
            /\ Decodable(th[w].test_result) )
          => LET runOK == th[w].result.success
                 testOK == th[w].test_result.success
                 run == TextOf(th[w].result)
                 test == TextOf(th[w].test_result)
                 r == th'[w].ret
             IN  /\ r.ok
                 /\ (runOK /\ testOK) => r.val = [tag |-> "Success", test |-> test]
                 /\ (~runOK /\ ~testOK) =>
                        r.val = [tag |-> "RunTestError", run |-> run, test |-> test]
                 /\ (~runOK /\ testOK) => r.val = [tag |-> "RunError", run |-> run]
                 /\ (runOK /\ ~testOK) => r.val = [tag |-> "TestError", test |-> test] ]_vars

\* A pipeline whose run and test both failed has returned from classification.
WitnessRunAndTestFailed ==
    \E w \in Workers :
        /\ th[w].pc = "ret"
        /\ th[w].ret.ok
        /\ th[w].ret.val.tag = "RunTestError"

\* C5: the result test_wrapper records is Success(test) for Success,
\* TestError{run, absent} for RunError, TestError{absent, test} for TestError,
\* TestError{run, test} for RunTestError and SetupError(e) for an error e; test
\* returns Success only from a run and a test that both exited successfully;
\* a recorded TestError has at least one log.
RecordedResultTable ==
    [][ /\ \A w \in Workers :
              (th[w].pc = "complete" /\ th'[w].pc = "idle")
              => LET r == th[w].ret
                     e == ledger'[th[w].index + 1].result
                 IN  IF ~r.ok
                     THEN e = [tag |-> "SetupError", error |-> r.val]
                     ELSE /\ r.val.tag = "Success" =>
                                e = [tag |-> "Success", output |-> r.val.test]
                          /\ r.val.tag = "RunError" =>
                                e = [tag |-> "TestError",
                                     run_error_log  |-> <<r.val.run>>,
                                     test_error_log |-> <<>>]
                          /\ r.val.tag = "TestError" =>
                                e = [tag |-> "TestError",
                                     run_error_log  |-> <<>>,
                                     test_error_log |-> <<r.val.test>>]
                          /\ r.val.tag = "RunTestError" =>
                                e = [tag |-> "TestError",
                                     run_error_log  |-> <<r.val.run>>,
                                     test_error_log |-> <<r.val.test>>]
        /\ \A w \in Workers :
              (Returns(w) /\ th'[w].ret.ok /\ th'[w].ret.val.tag = "Success")
              => /\ th[w].pc = "classify"
                 /\ th[w].result.success
                 /\ th[w].test_result.success
        /\ \A i \in 1..Len(ledger') :
              ledger'[i].result.tag = "TestError"
              => \/ ledger'[i].result.run_error_log # <<>>
                 \/ ledger'[i].result.test_error_log # <<>> ]_vars

\* A TestFailure was recorded: a TestError entry with the test log only.
WitnessTestFailureRecorded ==
    \E i \in 1..Len(ledger) :
        /\ ledger[i].result.tag = "TestError"
        /\ ledger[i].result.run_error_log = <<>>
        /\ ledger[i].result.test_error_log # <<>>

\* C6: a pipeline in which the run stage and the test stage both returned an
\* exit status (it went on to image removal) returns one of the four
\* execution outcomes, never a SetupError.
NoSetupErrorAfterRunAndTest ==
    \A w \in Workers :
        (th[w].pc = "ret" /\ "rmi" \in th[w].invoked)
        => /\ th[w].ret.ok
           /\ th[w].ret.val.tag \in {"Success", "RunError", "TestError", "RunTestError"}

LaterStages == {"close", "run", "test", "rmi", "classify"}

\* C7, as claimed: a build that exits non-zero always makes test return
\* ContainerBuildFailed with the captured stdout and stderr, and no later
\* stage is invoked.
BuildFailureIsContainerBuildFailed ==
    [][ \A w \in Workers :
          (th[w].pc = "build_status" /\ th'[w].pc # "build_status" /\ ~th[w].out.success)
          => /\ th'[w].pc = "ret"
             /\ ~th'[w].ret.ok
             /\ th'[w].ret.val.kind = "ContainerBuildFailed"
             /\ th'[w].ret.val.output = TextOf(th[w].out)
             /\ th'[w].invoked \cap LaterStages = {} ]_vars

\* C7, amended: a build that exits non-zero makes test return
\* ContainerBuildFailed with the captured stdout and stderr when both are valid
\* UTF-8 and Utf8Error when one is not; in both cases no later stage is
\* invoked, and the run, test and removal stages are only ever invoked after a
\* build that exited successfully.
BuildFailureReturnsSetupError ==
    [][ \A w \in Workers :
          /\ (th[w].pc = "build_status" /\ th'[w].pc # "build_status" /\ ~th[w].out.success)
             => /\ th'[w].pc = "ret"
                /\ th'[w].ret = IF Decodable(th[w].out)
                                THEN [ok |-> FALSE,
                                      val |-> [kind |-> "ContainerBuildFailed",
                                               output |-> TextOf(th[w].out)]]
                                ELSE [ok |-> FALSE, val |-> [kind |-> "Utf8Error"]]
                /\ th'[w].invoked \cap LaterStages = {}
          /\ (th'[w].invoked \cap {"run", "test", "rmi"} # {}) => th'[w].image ]_vars

\* A pipeline has returned ContainerBuildFailed.
WitnessContainerBuildFailed ==
    \E w \in Workers :
        /\ th[w].pc = "ret"
        /\ ~th[w].ret.ok
        /\ th[w].ret.val.kind = "ContainerBuildFailed"
        /\ th[w].invoked \cap LaterStages = {}

\* C8: whatever the outcome of the removal command, the removal stage is
\* followed by classification: it never makes test return.
RemovalFailureOnlyLogged ==
    [][ \A w \in Workers :
          (th[w].pc = "rmi" /\ th'[w].pc # "rmi") => th'[w].pc = "classify" ]_vars

\* C9: a pipeline whose build created an image has attempted the removal of
\* the image when test returns.
ImageRemovalAlwaysAttempted ==
    \A w \in Workers :
        (th[w].pc = "ret" /\ th[w].image) => "rmi" \in th[w].invoked

\* C10: a request whose derived branch is not "master", not "submission" and
\* does not start with "submissions/" is answered with the branch-skip
\* message, under every configuration; a request whose derived branch has one
\* of these forms is not answered with it.
BranchGateAnswer ==
    response # NoResponse =>
        LET branch == DeriveBranch(response.ref)
            form == \/ branch = <<"master">>
                    \/ branch = <<"submission">>
                    \/ (Len(branch) >= 1 /\ branch[1] = "submissions/")
        IN  /\ ~form => response.body = SkipBody
            /\ form => response.body # SkipBody

\* A step in which submission_handler answers a request with something other
\* than "Running Test!".
RejectStep ==
    /\ response' # response
    /\ response'.body # RunningBody

\* The ids of the tasks that are dispatched and have not appended their entry.
PendingIds ==
    UNION {{queue[w][k].id : k \in 1..Len(queue[w])} : w \in Workers} \cup
    {th[w].task.id : w \in {v \in Workers : th[v].pc \in {"lock_append", "append"}}}

\* The ids of the tasks that have appended an entry.
EntryIds == {hist[i].task : i \in 1..Len(hist)}

\* C11: a request the router rejects (branch rejected, or no repository
\* matches) dispatches no pipeline and leaves the ledger as it is; at any later
\* time the ledger holds entries of accepted requests only, one for each that
\* has started.
RejectedRequestChangesNothing ==
    /\ [][RejectStep => UNCHANGED <<ledger, hist, queue, accepted, th, lock>>]_vars
    /\ [](/\ Len(hist) = Len(ledger)
          /\ Cardinality(EntryIds) = Len(ledger)
          /\ EntryIds \cap PendingIds = {}
          /\ EntryIds \cup PendingIds = 1..accepted)

\* A rejected request is the last one answered, after the one accepted request
\* has run to its end: the ledger holds that one entry.
WitnessRejectedRequest ==
    /\ response # NoResponse
    /\ response.body # RunningBody
    /\ accepted = 1
    /\ Len(ledger) = 1
    /\ IsTerminal(ledger[1].result)
    /\ \A w \in Workers : th[w].pc = "idle" /\ queue[w] = <<>>

\* A step of submission_handler.
HandlerStep == response' # response \/ accepted' # accepted

\* The position in repos of the first repository whose match URL is url, or 0.
FirstMatch(repos, url) ==
    LET hits == {i \in 1..Len(repos) : repos[i].match_url = url}
    IN  IF hits = {} THEN 0 ELSE CHOOSE i \in hits : \A j \in hits : i <= j

\* Worker w is handed exactly the task t, and nobody else anything.
DispatchedTo(w, t) ==
    /\ queue'[w] = Append(queue[w], t)
    /\ \A v \in Workers \ {w} : queue'[v] = queue[v]

\* C12: for a request that passes the branch gate, the router takes the first
\* configured repository, in declaration order, whose match URL equals the
\* request's git_http_url, dispatches exactly one pipeline with the clone URL
\* made from that repository's template, user and token, and answers
\* "Running Test!" while the pipeline has not started; when no repository
\* matches it dispatches nothing and answers "Unknown Repository <url>".
RouterSelectsFirstMatch ==
    [][HandlerStep /\ BranchAccepted(DeriveBranch(response'.ref)) =>
          LET url == response'.url
              k == FirstMatch(conf, url)
          IN  IF k = 0
              THEN /\ response'.body = UnknownBody(url)
                   /\ UNCHANGED <<queue, accepted, ledger, hist, th, lock>>
              ELSE /\ response'.body = RunningBody
                   /\ accepted' = accepted + 1
                   /\ \E w \in Workers :
                          /\ queue'[w] # <<>>
                          /\ LET t == queue'[w][Len(queue'[w])]
                             IN  /\ DispatchedTo(w, t)
                                 /\ t.match_url = conf[k].match_url
                                 /\ t.clone_url = ResolveCloneUrl(conf[k])
                   /\ UNCHANGED <<ledger, hist, th, lock>>]_vars

\* Two repositories are configured for one match URL and a request for it was
\* accepted: the task waits with the clone URL of the first of them.
WitnessFirstOfTwoMatches ==
    /\ conf = <<RepoA2, RepoA>>
    /\ response # NoResponse
    /\ response.body = RunningBody
    /\ \E w \in Workers :
          /\ queue[w] # <<>>
          /\ queue[w][1].clone_url = <<"ssh://", "botA2", "@mirror/a.git">>

\* C13: an accepted submission has its ledger entry created at accept time: in
\* the step in which the router answers "Running Test!" the ledger grows by
\* exactly one, and the new entry is InProgress with the match URL as its
\* repository and the derived branch as its branch.
EntryCreatedAtAccept ==
    [][accepted' = accepted + 1 =>
          /\ Len(ledger') = Len(ledger) + 1
          /\ ledger'[Len(ledger')] = [repository |-> response'.url,
                                      branch     |-> DeriveBranch(response'.ref),
                                      result     |-> InProgress]]_vars

\* C14: the order of the ledger indices is the order of acceptance: an entry
\* at a smaller index belongs to a submission that was accepted earlier.
IndexOrderIsAcceptOrder ==
    \A i, j \in 1..Len(hist) : i < j => hist[i].task < hist[j].task

\* C15: the ledger is append-only: in every step its length stays or grows by
\* one, the repository and the branch of every existing entry stay as they
\* are, and the step in which a pipeline records its result changes the result
\* of its own entry and nothing else in the ledger.
LedgerAppendOnly ==
    [][/\ Len(ledger') \in {Len(ledger), Len(ledger) + 1}
       /\ \A i \in 1..Len(ledger) :
             /\ ledger'[i].repository = ledger[i].repository
             /\ ledger'[i].branch = ledger[i].branch
       /\ \A w \in Workers :
             th[w].pc = "complete" /\ th'[w].pc # "complete" =>
                /\ Len(ledger') = Len(ledger)
                /\ \A j \in 1..Len(ledger) :
                      j # th[w].index + 1 => ledger'[j] = ledger[j]]_vars

\* A pipeline has recorded its result while the entry of another is still
\* InProgress.
WitnessCompletedBesideOpenEntry ==
    /\ Len(ledger) = 2
    /\ IsTerminal(ledger[2].result)
    /\ ledger[1].result = InProgress

\* The ref without RefPrefix at its start, and the ref itself when it does not
\* start with it.
StripPrefix(ref) ==
    IF StartsWith(ref, RefPrefix)
    THEN SubSeq(ref, Len(RefPrefix) + 1, Len(ref))
    ELSE ref

\* The task that the step hands to a worker.
Dispatched ==
    LET w == CHOOSE v \in Workers : queue'[v] # queue[v]
    IN  queue'[w][Len(queue'[w])]

\* C16: the derived branch is the ref with "refs/heads/" stripped from its
\* start only: with a repository configured, the request is answered with the
\* branch rejection exactly when that branch fails the gate, and a dispatched
\* pipeline gets that branch.
BranchIsRefWithoutLeadingPrefix ==
    [][HandlerStep /\ conf # <<>> =>
          LET branch == StripPrefix(response'.ref)
          IN  /\ response'.body = SkipBody <=> ~BranchAccepted(branch)
              /\ accepted' = accepted + 1 => Dispatched.branch = branch]_vars

\* The template with each placeholder of the template replaced, the inserted
\* text left as it is.
RECURSIVE SubstituteOnce(_, _, _)
SubstituteOnce(template, user, token) ==
    IF template = <<>> THEN <<>>
    ELSE (IF <<Head(template)>> = UsernamePlaceholder THEN user
          ELSE IF <<Head(template)>> = PasswordPlaceholder THEN token
          ELSE <<Head(template)>>)
         \o SubstituteOnce(Tail(template), user, token)

\* C17: the clone URL of a dispatched pipeline is the clone template of the
\* selected repository with each {username} of the template replaced by the
\* deploy user and each {password} of the template by the deploy token;
\* placeholder text inside the user or the token is not substituted again.
CloneUrlSubstitutedOnce ==
    [][accepted' = accepted + 1 =>
          LET rep == conf[FirstMatch(conf, response'.url)]
          IN  Dispatched.clone_url =
                 SubstituteOnce(rep.clone_url, rep.deploy_user, rep.deploy_token)]_vars

\* The positions of a worker inside test.
StagePositions ==
    {"tempdir", "clone", "platform", "overlay", "build", "build_status", "close",
     "run", "test", "rmi", "classify", "ret"}

\* C18: no pipeline holds the ledger lock while a stage of it executes: a
\* worker is the writer only at the append of its InProgress entry and at the
\* assignment of its result, and the readers are the board requests that
\* render; so while pipelines are inside their stages the lock is free for a
\* board read or for the append of another pipeline.
LockNotHeldAcrossStages ==
    /\ \A w \in Workers :
          /\ lock.writer = w => th[w].pc \in {"append", "complete"}
          /\ th[w].pc \in StagePositions => lock.writer # w
    /\ lock.readers = Cardinality({w \in Workers : th[w].pc = "render"})
    /\ (\A w \in Workers : th[w].pc \in StagePositions \cup {"idle"}) => lock = LockFree

\* One pipeline is inside its run stage while another pipeline holds the
\* write lock for its append.
WitnessAppendDuringStage ==
    /\ th["w1"].pc = "run"
    /\ th["w2"].pc = "append"
    /\ lock.writer = "w2"

\* The stages of test in the order of the pipeline.
StageOrder ==
    <<"clone", "platform", "overlay", "build", "run", "test", "rmi", "classify">>

\* Every stage invoked by worker w has all earlier stages invoked.
InvokedInOrder(w) ==
    \A k \in 1..Len(StageOrder) :
        StageOrder[k] \in th[w].invoked =>
            \A j \in 1..(k - 1) : StageOrder[j] \in th[w].invoked

\* C19: the stages are invoked in the order clone, platform read, overlay,
\* build, run, test, image removal, classification: at every time the invoked
\* stages have all their earlier stages invoked, a step invokes at most one
\* more stage, and a run that returned an exit status, zero or not, is followed
\* by the invocation of the test.
StagesInFixedOrder ==
    /\ [](\A w \in Workers : InvokedInOrder(w))
    /\ [][\A w \in Workers :
            /\ th'[w].pc # "idle" =>
                  /\ th[w].invoked \subseteq th'[w].invoked
                  /\ Cardinality(th'[w].invoked \ th[w].invoked) <= 1
            /\ th[w].pc = "run" /\ th'[w].pc # "run" =>
                  \/ th'[w].pc = "test"
                  \/ th'[w].pc = "ret" /\ th'[w].ret = Err(IOError)
            /\ th[w].pc = "test" /\ th'[w].pc # "test" =>
                  "test" \in th'[w].invoked]_vars

\* The run exited non-zero and the test was invoked after it.
WitnessTestAfterFailedRun ==
    /\ th["w1"].pc = "rmi"
    /\ ~th["w1"].result.success
    /\ "test" \in th["w1"].invoked

\* C20: on every exit path of test taken after the workspace directory was
\* created, the removal of the directory has been performed or attempted when
\* test has returned; and the directory is removed before the run stage is
\* invoked.
WorkspaceRemovedOnReturn ==
    \A w \in Workers :
        /\ th[w].pc \in {"ret", "complete"} =>
              /\ th[w].ws # "present"
              /\ "clone" \in th[w].invoked => th[w].ws = "removed"
        /\ th[w].pc = "run" \/ "run" \in th[w].invoked => th[w].ws = "removed"

\* test has returned from a failed clone, and the workspace is removed.
WitnessRemovedAfterCloneFailure ==
    /\ th["w1"].pc = "ret"
    /\ th["w1"].ret = Err(GitError)
    /\ th["w1"].ws = "removed"

====
